---- MODULE Spec2Model ----
(***************************************************************************)
(* Model of app/src/main/cpp/adrenotools_bridge.cpp: the JNI entry point   *)
(* nativeHookDriver, which checks that the bait library exists, clears the *)
(* dynamic linker's last-error slot, calls adrenotools_open_libvulkan once *)
(* and reports the outcome through the Android log and a jboolean.         *)
(*                                                                         *)
(* Every thread of Threads runs the function line by line (pc).  What a    *)
(* thread does that is visible outside it (log lines, calls into libc, the *)
(* linker, the JNI environment) is appended to events[t], in program       *)
(* order, so that the properties below can speak about order and number.   *)
(***************************************************************************)
EXTENDS Naturals, Sequences, FiniteSets, TLC

\* Bound: invocations started in one behaviour, over all threads.
MaxCalls == 2

Threads == {"t1", "t2"}
NoThread == "none"

\* The null pointer, among values that are otherwise strings.
nullptr == "nullptr"

\* jstring arguments the Java caller passes: scenarios A, B and C of spec.md
\* (B: the hook directory holds no bait; C: the driver directory is not there).
Requests ==
    {[tmp_lib_dir |-> "/data/tmp", hook_lib_dir |-> "/data/app/lib",
      custom_driver_dir |-> "/data/drivers/turnip", driver_name |-> "libturnip.so"],
     [tmp_lib_dir |-> "/data/tmp", hook_lib_dir |-> "/data/empty",
      custom_driver_dir |-> "/data/drivers/turnip", driver_name |-> "libturnip.so"],
     [tmp_lib_dir |-> "/data/tmp", hook_lib_dir |-> "/data/app/lib",
      custom_driver_dir |-> "/data/nonexistent", driver_name |-> "libturnip.so"]}

HookDirs == {r.hook_lib_dir : r \in Requests}

\* The four native strings of one invocation, by the local that holds them.
Locals == {"tmp_dir", "hook_dir", "driver_dir", "d_name"}

VARIABLES
    callerLock,   \* whether the Java caller serialises invocations with a mutex
    sharedSlot,   \* whether dlerror()'s last-error slot is one per process
    fs,           \* what the filesystem holds at each bait path
    dlerrorSlot,  \* the linker's last error, as each thread's dlerror() sees it
    nsHooked,     \* the linker namespace has been redirected (never undone)
    mutex,        \* the caller's mutex: its holder, or NoThread
    started,      \* invocations started so far
    pc,           \* each thread's position in nativeHookDriver
    jargs,        \* the four jstring arguments of the running invocation
    chars,        \* tmp_dir, hook_dir, driver_dir, d_name
    charState,    \* each of them: "none", "valid" or "released"
    bait_path,    \* the std::string bait_path
    handle,       \* the void* handle
    err,          \* the const char* err
    ret,          \* the jboolean returned
    events        \* what the invocation has done so far, in order

vars ==
    <<callerLock, sharedSlot, fs, dlerrorSlot, nsHooked, mutex, started, pc,
      jargs, chars, charState, bait_path, handle, err, ret, events>>

env == <<callerLock, sharedSlot, fs>>

----------------------------------------------------------------------------
(* The filesystem, as access(2) sees it.                                   *)

BaitName == "libvulkan_freedreno.so"

\* What may be at a path: "file", "no_file" (the directory is there),
\* "no_dir" (no directory at all) or "no_permission" (a directory the process
\* may not search).

\* Mutant of BaitPathOf: the separator is forgotten.
BaitPathOf_NoSeparator(dir) == dir \o BaitName

BaitPathOf(dir) == dir \o "/" \o BaitName

BaitPaths == {BaitPathOf(d) : d \in HookDirs}

\* The layouts considered: the app's lib folder holds the bait and the other
\* folder is empty; or the app's lib folder may not be searched and the other
\* folder is not there.
FsLayouts ==
    {[p \in BaitPaths |->
        IF p = BaitPathOf("/data/app/lib") THEN "file" ELSE "no_file"],
     [p \in BaitPaths |->
        IF p = BaitPathOf("/data/app/lib") THEN "no_permission" ELSE "no_dir"]}

\* Mutant of access_F_OK: only a missing file or directory counts as absent
\* (a check of errno == ENOENT), so an unsearchable directory passes.
access_F_OK_OnlyEnoent(path) ==
    IF fs[path] \in {"file", "no_permission"} THEN 0 ELSE 1

\* access(path, F_OK): 0 when the file is there, -1 (as 1 here) otherwise.
access_F_OK(path) == IF fs[path] = "file" THEN 0 ELSE 1

----------------------------------------------------------------------------
(* The dynamic linker's last-error slot.  dlerror() returns the last error *)
(* and clears it.  POSIX leaves open whether the slot is one per process   *)
(* or one per thread; sharedSlot is that choice.                           *)

GhostErrors == {"ghost: library \"libfoo.so\" not found"}

LinkerError(t) == "dlopen failed: cannot load driver [" \o t \o "]"

LinkerErrors == {LinkerError(t) : t \in Threads}

SlotRead(t) == dlerrorSlot[t]

SlotWrite(t, v) ==
    IF sharedSlot THEN [u \in Threads |-> v]
    ELSE [dlerrorSlot EXCEPT ![t] = v]

\* The slot after one dlerror() call by thread t.
SlotAfterDlerror(t) == SlotWrite(t, nullptr)

----------------------------------------------------------------------------
(* Helpers of the function body.                                           *)

Emit(t, e) == [events EXCEPT ![t] = Append(@, e)]

LogRecord(level, fmt, args) ==
    [op |-> "log", level |-> level, fmt |-> fmt, args |-> args]

\* printf-style %s with a null pointer is undefined: the line may fault or
\* print "(null)".
PrintfOutcomes(args) ==
    IF \E i \in 1..Len(args) : args[i] = nullptr
    THEN {"fault", "(null)"} ELSE {"ok"}

PrintfArgs(args) ==
    [i \in 1..Len(args) |-> IF args[i] = nullptr THEN "(null)" ELSE args[i]]

NoDlerrorText == "No dlerror generated (Likely LinkerNSBypass failed)"

\* Mutant of ErrText: err is passed to the format unguarded.
ErrText_Unguarded(e) == e

\* Line 51: err != nullptr ? err : "No dlerror generated (...)".
ErrText(e) == IF e # nullptr THEN e ELSE NoDlerrorText

\* Mutant of ReturnValue: JNI_TRUE whatever the handle.
ReturnValue_AlwaysTrue(h) == TRUE

\* Line 61: handle != nullptr ? JNI_TRUE : JNI_FALSE.
ReturnValue(h) == h # nullptr

\* Lines 38 and 39: the flags and the feature word of the call.
OpenFlags == {"RTLD_NOW", "RTLD_GLOBAL"}

OpenFeatures == {"ADRENOTOOLS_DRIVER_CUSTOM"}

\* Mutant of OpenCall: the temp and hook directories change places.
OpenCall_Swapped(t) ==
    [flags |-> OpenFlags, featureFlags |-> OpenFeatures,
     tmpLibDir |-> chars[t].hook_dir, hookLibDir |-> chars[t].tmp_dir,
     customDriverDir |-> chars[t].driver_dir,
     customDriverName |-> chars[t].d_name,
     fileRedirectDir |-> nullptr, userMappingHandle |-> nullptr]

\* Lines 37 to 46: the call, with the eight arguments in their positions.
OpenCall(t) ==
    [flags |-> OpenFlags, featureFlags |-> OpenFeatures,
     tmpLibDir |-> chars[t].tmp_dir, hookLibDir |-> chars[t].hook_dir,
     customDriverDir |-> chars[t].driver_dir,
     customDriverName |-> chars[t].d_name,
     fileRedirectDir |-> nullptr, userMappingHandle |-> nullptr]

\* Mutant of AfterBaitCheck: a missing bait file ends the attempt.
AfterBaitCheck_ShortCircuit(rc) == IF rc # 0 THEN "L56" ELSE "L34"

\* Where control goes after the bait check: both branches of the if at line
\* 27 fall through to line 34.
AfterBaitCheck(rc) == "L34"

\* Mutant of SlotAfterClear: line 34 is left out.
SlotAfterClear_Missing(t) == dlerrorSlot

\* Line 34: the slot after the statement that precedes the call.
SlotAfterClear(t) == SlotAfterDlerror(t)

\* The order in which lines 18 to 21 acquire the strings.
AcquireOrder == <<"tmp_dir", "hook_dir", "driver_dir", "d_name">>

\* Mutant of ReleaseOrder: d_name is never released.
ReleaseOrder_Leak == <<"tmp_dir", "hook_dir", "driver_dir">>

\* The order in which lines 56 to 59 release the strings.
ReleaseOrder == <<"tmp_dir", "hook_dir", "driver_dir", "d_name">>

\* Where the releases stand: lines 56 to 59 come after the if at line 48.
AfterReport == "L56"

----------------------------------------------------------------------------
(* adrenotools_open_libvulkan, the namespace-bypass primitive: a black box *)
(* with three outcomes.  It yields a handle only when the driver directory *)
(* exists.                                                                 *)

Handle == "0xb400007a"

DriverDirExists(d) == d # "/data/nonexistent"

OpenOutcomes(call) ==
    IF call.customDriverDir # nullptr /\ call.customDriverName # nullptr
       /\ DriverDirExists(call.customDriverDir)
    THEN {"handle", "null_err", "null_noerr"}
    ELSE {"null_err", "null_noerr"}

----------------------------------------------------------------------------

NoChars == [k \in Locals |-> nullptr]

Init ==
    /\ callerLock \in BOOLEAN
    /\ sharedSlot \in BOOLEAN
    /\ fs \in FsLayouts
    /\ dlerrorSlot \in [Threads -> {nullptr} \cup GhostErrors]
    /\ (sharedSlot => \A t, u \in Threads : dlerrorSlot[t] = dlerrorSlot[u])
    /\ nsHooked = FALSE
    /\ mutex = NoThread
    /\ started = 0
    /\ pc = [t \in Threads |-> "idle"]
    /\ jargs = [t \in Threads |-> CHOOSE r \in Requests : TRUE]
    /\ chars = [t \in Threads |-> NoChars]
    /\ charState = [t \in Threads |-> [k \in Locals |-> "none"]]
    /\ bait_path = [t \in Threads |-> ""]
    /\ handle = [t \in Threads |-> nullptr]
    /\ err = [t \in Threads |-> nullptr]
    /\ ret = [t \in Threads |-> FALSE]
    /\ events = [t \in Threads |-> <<>>]

\* The Java caller enters nativeHookDriver on thread t.
Call(t) ==
    /\ pc[t] \in {"idle", "done"}
    /\ started < MaxCalls
    /\ callerLock => mutex = NoThread
    /\ \E r \in Requests : jargs' = [jargs EXCEPT ![t] = r]
    /\ mutex' = IF callerLock THEN t ELSE mutex
    /\ started' = started + 1
    /\ pc' = [pc EXCEPT ![t] = "L18"]
    /\ chars' = [chars EXCEPT ![t] = NoChars]
    /\ charState' = [charState EXCEPT ![t] = [k \in Locals |-> "none"]]
    /\ bait_path' = [bait_path EXCEPT ![t] = ""]
    /\ handle' = [handle EXCEPT ![t] = nullptr]
    /\ err' = [err EXCEPT ![t] = nullptr]
    /\ ret' = [ret EXCEPT ![t] = FALSE]
    /\ events' = [events EXCEPT ![t] = <<>>]
    /\ UNCHANGED <<env, dlerrorSlot, nsHooked>>

\* Lines 18 to 21: GetStringUTFChars on each argument.  The arguments are
\* non-null jstrings (the request's invariant), for which the call yields a
\* valid native string; the function does not test the result.
L18_GetStrings(t) ==
    /\ pc[t] = "L18"
    /\ chars' = [chars EXCEPT ![t] =
                    [tmp_dir |-> jargs[t].tmp_lib_dir,
                     hook_dir |-> jargs[t].hook_lib_dir,
                     driver_dir |-> jargs[t].custom_driver_dir,
                     d_name |-> jargs[t].driver_name]]
    /\ charState' = [charState EXCEPT ![t] = [k \in Locals |-> "valid"]]
    /\ events' = [events EXCEPT ![t] =
                    @ \o [i \in 1..Len(AcquireOrder) |->
                            [op |-> "get", local |-> AcquireOrder[i]]]]
    /\ pc' = [pc EXCEPT ![t] = "L23"]
    /\ UNCHANGED <<env, dlerrorSlot, nsHooked, mutex, started, jargs,
                   bait_path, handle, err, ret>>

\* Lines 23 to 26: the start line, then
\* bait_path = std::string(hook_dir) + "/libvulkan_freedreno.so".
L23_BaitPath(t) ==
    /\ pc[t] = "L23"
    /\ bait_path' = [bait_path EXCEPT ![t] = BaitPathOf(chars[t].hook_dir)]
    /\ events' = [events EXCEPT ![t] =
                    @ \o <<LogRecord("I", "Starting AdrenoTools injection...", <<>>),
                           [op |-> "use", local |-> "hook_dir",
                            state |-> charState[t].hook_dir]>>]
    /\ pc' = [pc EXCEPT ![t] = "L27"]
    /\ UNCHANGED <<env, dlerrorSlot, nsHooked, mutex, started, jargs, chars,
                   charState, handle, err, ret>>

\* Lines 27 to 31: access(bait_path, F_OK) and the line logged for it.
L27_CheckBait(t) ==
    /\ pc[t] = "L27"
    /\ LET rc == access_F_OK(bait_path[t])
           line == IF rc # 0
                   THEN LogRecord("E",
                          "CRITICAL: The bait file is MISSING from the app's lib folder: %s",
                          <<bait_path[t]>>)
                   ELSE LogRecord("I", "SUCCESS: Bait file found at %s",
                          <<bait_path[t]>>)
       IN /\ events' = [events EXCEPT ![t] =
                          @ \o <<[op |-> "access", path |-> bait_path[t],
                                  mode |-> "F_OK", rc |-> rc], line>>]
          /\ pc' = [pc EXCEPT ![t] = AfterBaitCheck(rc)]
    /\ UNCHANGED <<env, dlerrorSlot, nsHooked, mutex, started, jargs, chars,
                   charState, bait_path, handle, err, ret>>

\* Line 34: dlerror(), its result dropped.
L34_ClearDlerror(t) ==
    /\ pc[t] = "L34"
    /\ dlerrorSlot' = SlotAfterClear(t)
    /\ events' = Emit(t, [op |-> "dlerror", at |-> 34, result |-> SlotRead(t)])
    /\ pc' = [pc EXCEPT ![t] = "L37"]
    /\ UNCHANGED <<env, nsHooked, mutex, started, jargs, chars, charState,
                   bait_path, handle, err, ret>>

\* Lines 37 to 46: the one call of adrenotools_open_libvulkan.
L37_Open(t) ==
    /\ pc[t] = "L37"
    /\ \E o \in OpenOutcomes(OpenCall(t)) :
          /\ handle' = [handle EXCEPT ![t] =
                          IF o = "handle" THEN Handle ELSE nullptr]
          /\ nsHooked' = (nsHooked \/ o = "handle")
          /\ dlerrorSlot' = IF o = "null_err"
                            THEN SlotWrite(t, LinkerError(t))
                            ELSE dlerrorSlot
          /\ events' = Emit(t, [op |-> "open", call |-> OpenCall(t),
                                state |-> charState[t], outcome |-> o])
    /\ pc' = [pc EXCEPT ![t] = "L48"]
    /\ UNCHANGED <<env, mutex, started, jargs, chars, charState, bait_path,
                   err, ret>>

\* Lines 48 to 51: the handle is null; dlerror() is read and two lines logged.
L49_Failure(t) ==
    /\ pc[t] = "L48"
    /\ handle[t] = nullptr
    /\ err' = [err EXCEPT ![t] = SlotRead(t)]
    /\ dlerrorSlot' = SlotAfterDlerror(t)
    /\ LET args == <<ErrText(SlotRead(t))>>
       IN \E p \in PrintfOutcomes(args) :
             /\ events' = [events EXCEPT ![t] =
                   @ \o <<[op |-> "dlerror", at |-> 49, result |-> SlotRead(t)],
                          LogRecord("E", "CRITICAL: adrenotools_open_libvulkan failed!", <<>>)>>
                     \o (IF p = "fault" THEN <<>>
                         ELSE <<LogRecord("E", "Real dlerror: %s", PrintfArgs(args))>>)]
             /\ pc' = [pc EXCEPT ![t] = IF p = "fault" THEN "fault" ELSE AfterReport]
    /\ UNCHANGED <<env, nsHooked, mutex, started, jargs, chars, charState,
                   bait_path, handle, ret>>

\* Lines 52 to 54: the handle is not null.
L53_Success(t) ==
    /\ pc[t] = "L48"
    /\ handle[t] # nullptr
    /\ events' = Emit(t, LogRecord("I",
                    "SUCCESS: Custom Turnip driver loaded into memory! Handle: %p",
                    <<handle[t]>>))
    /\ pc' = [pc EXCEPT ![t] = AfterReport]
    /\ UNCHANGED <<env, dlerrorSlot, nsHooked, mutex, started, jargs, chars,
                   charState, bait_path, handle, err, ret>>

\* Lines 56 to 59: ReleaseStringUTFChars on each string.
L56_Release(t) ==
    /\ pc[t] = "L56"
    /\ charState' = [charState EXCEPT ![t] =
                        [k \in Locals |->
                            IF \E i \in 1..Len(ReleaseOrder) : ReleaseOrder[i] = k
                            THEN "released" ELSE @[k]]]
    /\ events' = [events EXCEPT ![t] =
                    @ \o [i \in 1..Len(ReleaseOrder) |->
                            [op |-> "release", local |-> ReleaseOrder[i],
                             state |-> charState[t][ReleaseOrder[i]]]]]
    /\ pc' = [pc EXCEPT ![t] = "L61"]
    /\ UNCHANGED <<env, dlerrorSlot, nsHooked, mutex, started, jargs, chars,
                   bait_path, handle, err, ret>>

\* Line 61: the jboolean goes back to the caller, who releases the mutex.
L61_Return(t) ==
    /\ pc[t] = "L61"
    /\ ret' = [ret EXCEPT ![t] = ReturnValue(handle[t])]
    /\ events' = Emit(t, [op |-> "return", value |-> ReturnValue(handle[t])])
    /\ mutex' = IF mutex = t THEN NoThread ELSE mutex
    /\ pc' = [pc EXCEPT ![t] = "done"]
    /\ UNCHANGED <<env, dlerrorSlot, nsHooked, started, jargs, chars,
                   charState, bait_path, handle, err>>

\* An unrelated library operation elsewhere in the process leaves an error
\* in the slot while no invocation is running.
GhostError ==
    /\ \A t \in Threads : pc[t] \in {"idle", "done"}
    /\ \E t \in Threads, g \in GhostErrors :
          /\ dlerrorSlot[t] # g
          /\ dlerrorSlot' = SlotWrite(t, g)
    /\ UNCHANGED <<env, nsHooked, mutex, started, pc, jargs, chars, charState,
                   bait_path, handle, err, ret, events>>

Step(t) ==
    \/ Call(t)
    \/ L18_GetStrings(t)
    \/ L23_BaitPath(t)
    \/ L27_CheckBait(t)
    \/ L34_ClearDlerror(t)
    \/ L37_Open(t)
    \/ L49_Failure(t)
    \/ L53_Success(t)
    \/ L56_Release(t)
    \/ L61_Return(t)

Next == GhostError \/ \E t \in Threads : Step(t)

Spec == Init /\ [][Next]_vars

----------------------------------------------------------------------------
(* Reading events[t].                                                      *)

Idx(t) == 1..Len(events[t])

Ev(t, i) == events[t][i]

IsOp(t, i, op) == Ev(t, i).op = op

OpIdx(t, op) == {i \in Idx(t) : IsOp(t, i, op)}

\* The index of the call of the primitive (0 when it has not been made).
OpenAt(t) == IF \E i \in Idx(t) : IsOp(t, i, "open")
             THEN CHOOSE i \in Idx(t) : IsOp(t, i, "open")
             ELSE 0

\* What the primitive returned to invocation t: "handle", "null_err" or
\* "null_noerr".
Outcome(t) == Ev(t, OpenAt(t)).outcome

Returned(t) == pc[t] = "done"

\* The invocation has left the if at line 48.
Reported(t) == pc[t] \in {"L56", "L61", "done"}

\* The bait check of line 27 is behind the invocation.
PastBaitCheck(t) == pc[t] \in {"L34", "L37", "L48", "L56", "L61", "done"}

LogIdx(t) == OpIdx(t, "log")

Logs(t) == SelectSeq(events[t], LAMBDA e : e.op = "log")

\* The text the "Real dlerror" line carries.
DlerrorLines(t) == {i \in LogIdx(t) : Ev(t, i).fmt = "Real dlerror: %s"}

MissingFmt == "CRITICAL: The bait file is MISSING from the app's lib folder: %s"

FoundFmt == "SUCCESS: Bait file found at %s"

ExpectedBaitPath(t) == jargs[t].hook_lib_dir \o "/" \o "libvulkan_freedreno.so"

BaitOnDisk(t) == fs[ExpectedBaitPath(t)]

----------------------------------------------------------------------------
\* C1: whenever an invocation has returned, whatever the primitive's outcome
\* (handle, null with a linker error, null without one) and whether or not
\* the bait file is there, the boolean it returned is TRUE exactly when the
\* primitive returned a non-null handle.
C1_ReturnIffHandle ==
    \A t \in Threads :
        Returned(t) =>
            /\ OpenAt(t) # 0
            /\ ret[t] = (Outcome(t) = "handle")
            /\ \E i \in OpIdx(t, "return") :
                  Ev(t, i).value = (Outcome(t) = "handle")

\* C1 witness: an invocation returned TRUE although the bait file is missing,
\* and another returned FALSE although the bait file is there.
C1_Witness ==
    \E t, u \in Threads :
        /\ Returned(t) /\ ret[t] /\ Outcome(t) = "handle"
        /\ BaitOnDisk(t) # "file"
        /\ Returned(u) /\ ~ret[u] /\ Outcome(u) = "null_err"
        /\ BaitOnDisk(u) = "file"

----------------------------------------------------------------------------
\* C2: when the bait file is absent from hook_lib_dir, the invocation logs
\* the MISSING line with the path hook_lib_dir/libvulkan_freedreno.so, does
\* so before it calls the primitive, still calls the primitive, and returns
\* what the primitive's outcome alone decides.
C2_MissingBaitStillAttempts ==
    \A t \in Threads :
        (PastBaitCheck(t) /\ BaitOnDisk(t) \in {"no_file", "no_dir"}) =>
            /\ \E i \in LogIdx(t) :
                  /\ Ev(t, i).level = "E"
                  /\ Ev(t, i).fmt = MissingFmt
                  /\ Ev(t, i).args = <<ExpectedBaitPath(t)>>
                  /\ \A j \in OpIdx(t, "open") : i < j
            /\ Reported(t) => Cardinality(OpIdx(t, "open")) = 1
            /\ Returned(t) => ret[t] = (Outcome(t) = "handle")

\* C2 witness: the bait file is absent, the MISSING line was logged, the
\* primitive was called all the same and the invocation returned TRUE.
C2_Witness ==
    \E t \in Threads :
        /\ Returned(t) /\ BaitOnDisk(t) = "no_file"
        /\ \E i \in LogIdx(t) : Ev(t, i).fmt = MissingFmt
        /\ Outcome(t) = "handle" /\ ret[t]

----------------------------------------------------------------------------
\* The error the dlerror() of line 34 found in the slot and dropped.
ClearedAt34(t) ==
    {Ev(t, i).result : i \in {j \in OpIdx(t, "dlerror") : Ev(t, j).at = 34}}

\* C3: the slot is cleared by the statement immediately before the call of
\* the primitive, and no invocation ever logs a stale error: one that ends
\* with a handle logs the handle and no error text, one that ends without a
\* handle logs an error the linker wrote after the clear, or the fallback.
C3_StaleErrorNeverSurfaces ==
    \A t \in Threads :
        LET o == OpenAt(t) IN
        /\ o # 0 =>
              /\ o > 1
              /\ IsOp(t, o - 1, "dlerror")
              /\ Ev(t, o - 1).at = 34
        /\ \A i \in Idx(t) :
              IsOp(t, i, "log") =>
                  \A k \in 1..Len(Ev(t, i).args) :
                      Ev(t, i).args[k] \notin GhostErrors
        /\ (Reported(t) /\ Ev(t, o).outcome = "handle") =>
              /\ \A i \in Idx(t) :
                    IsOp(t, i, "log") => Ev(t, i).fmt # "Real dlerror: %s"
              /\ \E i \in Idx(t) :
                    IsOp(t, i, "log") /\ Ev(t, i).args = <<Handle>>
        /\ (Reported(t) /\ Ev(t, o).outcome # "handle") =>
              \E i \in Idx(t) :
                  /\ IsOp(t, i, "log") /\ Ev(t, i).fmt = "Real dlerror: %s"
                  /\ Ev(t, i).args[1] \in LinkerErrors \cup {NoDlerrorText}

\* C3 witness: a stale error was in the slot when line 34 ran, the primitive
\* then failed without writing an error, and the invocation has reported.
C3_Witness ==
    \E t \in Threads :
        /\ Reported(t)
        /\ ClearedAt34(t) \cap GhostErrors # {}
        /\ Outcome(t) = "null_noerr"
        /\ \E i \in DlerrorLines(t) : Ev(t, i).args = <<NoDlerrorText>>

----------------------------------------------------------------------------
\* C4: after a null handle the very next thing the invocation does is read
\* dlerror(); it then reports the text read, verbatim, when there is one, and
\* the fallback text when there is none, never a null; after a non-null
\* handle it does not call dlerror() again.
C4_FailureCategories ==
    \A t \in Threads :
        Reported(t) =>
            LET o == OpenAt(t) IN
            IF Ev(t, o).outcome = "handle"
            THEN \A i \in OpIdx(t, "dlerror") : i < o
            ELSE /\ Len(events[t]) >= o + 3
                 /\ IsOp(t, o + 1, "dlerror") /\ Ev(t, o + 1).at = 49
                 /\ \A i \in OpIdx(t, "dlerror") : i <= o + 1
                 /\ IsOp(t, o + 3, "log")
                 /\ Ev(t, o + 3).fmt = "Real dlerror: %s"
                 /\ Ev(t, o + 3).args =
                        <<IF Ev(t, o + 1).result # nullptr
                          THEN Ev(t, o + 1).result
                          ELSE "No dlerror generated (Likely LinkerNSBypass failed)">>
                 /\ DlerrorLines(t) = {o + 3}
                 /\ NoDlerrorText \notin LinkerErrors \cup GhostErrors

\* C4 witness: one invocation reported a linker error verbatim and another
\* reported the fallback text.
C4_Witness ==
    \E t, u \in Threads :
        /\ Reported(t) /\ Outcome(t) = "null_err"
        /\ \E i \in DlerrorLines(t) : Ev(t, i).args = <<LinkerError(t)>>
        /\ Reported(u) /\ Outcome(u) = "null_noerr"
        /\ \E i \in DlerrorLines(u) : Ev(u, i).args = <<NoDlerrorText>>

----------------------------------------------------------------------------
Carries(t, i, v) == \E k \in 1..Len(Ev(t, i).args) : Ev(t, i).args[k] = v

\* C5 as claimed: an invocation that returned has logged exactly one record,
\* and that record carries the bait path, the four input parameters and, on
\* failure, the linker error text or the fallback text.
C5_OneRecordWithInputs ==
    \A t \in Threads :
        Returned(t) =>
            /\ Cardinality(LogIdx(t)) = 1
            /\ \E i \in LogIdx(t) :
                  /\ Carries(t, i, ExpectedBaitPath(t))
                  /\ Carries(t, i, jargs[t].tmp_lib_dir)
                  /\ Carries(t, i, jargs[t].hook_lib_dir)
                  /\ Carries(t, i, jargs[t].custom_driver_dir)
                  /\ Carries(t, i, jargs[t].driver_name)
                  /\ Outcome(t) # "handle" =>
                        \E x \in LinkerErrors \cup {NoDlerrorText} :
                            Carries(t, i, x)

\* C5 as amended: an invocation that returned has logged a fixed sequence of
\* lines, not one record: the start line, one bait line that carries the path
\* hook_lib_dir/libvulkan_freedreno.so, and then either the failure line
\* followed by one line that carries the linker error text or the fallback
\* text (null handle), or one line that carries the handle (non-null handle).
\* No line takes temp_lib_dir, custom_driver_dir or driver_file_name as an
\* argument.
C5_FixedLineSequence ==
    \A t \in Threads :
        Returned(t) =>
            LET L == Logs(t) IN
            /\ Len(L) = IF Outcome(t) = "handle" THEN 3 ELSE 4
            /\ L[1] = [op |-> "log", level |-> "I",
                       fmt |-> "Starting AdrenoTools injection...", args |-> <<>>]
            /\ L[2].args = <<ExpectedBaitPath(t)>>
            /\ L[2].fmt \in {MissingFmt, FoundFmt}
            /\ L[2].level = IF L[2].fmt = MissingFmt THEN "E" ELSE "I"
            /\ IF Outcome(t) = "handle"
               THEN /\ L[3].level = "I"
                    /\ L[3].fmt = "SUCCESS: Custom Turnip driver loaded into memory! Handle: %p"
                    /\ L[3].args = <<Handle>>
               ELSE /\ L[3] = [op |-> "log", level |-> "E",
                               fmt |-> "CRITICAL: adrenotools_open_libvulkan failed!",
                               args |-> <<>>]
                    /\ L[4].level = "E"
                    /\ L[4].fmt = "Real dlerror: %s"
                    /\ Len(L[4].args) = 1
                    /\ L[4].args[1] \in LinkerErrors \cup {NoDlerrorText}
            /\ \A i \in LogIdx(t) :
                  /\ ~Carries(t, i, jargs[t].tmp_lib_dir)
                  /\ ~Carries(t, i, jargs[t].custom_driver_dir)
                  /\ ~Carries(t, i, jargs[t].driver_name)

\* C5 witness: one invocation returned after a failure with four lines
\* logged, another after a success with three.
C5_Witness ==
    \E t, u \in Threads :
        /\ Returned(t) /\ Outcome(t) = "null_err" /\ Len(Logs(t)) = 4
        /\ Returned(u) /\ Outcome(u) = "handle" /\ Len(Logs(u)) = 3

----------------------------------------------------------------------------
\* How far into the function a position is.
Rank(p) ==
    CASE p = "idle" -> 0 [] p = "L18" -> 1 [] p = "L23" -> 2 [] p = "L27" -> 3
      [] p = "L34" -> 4 [] p = "L37" -> 5 [] p = "L48" -> 6 [] p = "L56" -> 7
      [] p = "L61" -> 8 [] p = "done" -> 9 [] OTHER -> 10

NoFaultNotStuck ==
    \A t \in Threads :
        /\ pc[t] # "fault"
        /\ pc[t] \notin {"idle", "done"} => ENABLED Step(t)
        /\ Returned(t) =>
              /\ ret[t] \in BOOLEAN
              /\ Ev(t, Len(events[t])) = [op |-> "return", value |-> ret[t]]

Advances ==
    \A t \in Threads :
        pc'[t] # pc[t] =>
            \/ pc[t] \in {"idle", "done"} /\ pc'[t] = "L18"
            \/ Rank(pc[t]) < Rank(pc'[t]) /\ Rank(pc'[t]) <= 9

----------------------------------------------------------------------------
\* C7: an invocation calls the primitive at most once, and exactly once by
\* the time it reports, whatever the bait check and the outcome; the call
\* asks for RTLD_NOW and RTLD_GLOBAL and passes the caller's temp directory,
\* hook directory, driver directory and driver file name in those positions.
C7_OneCallRightArguments ==
    \A t \in Threads :
        /\ Cardinality(OpIdx(t, "open")) <= 1
        /\ Reported(t) => Cardinality(OpIdx(t, "open")) = 1
        /\ \A i \in OpIdx(t, "open") :
              LET c == Ev(t, i).call IN
              /\ c.flags = {"RTLD_NOW", "RTLD_GLOBAL"}
              /\ c.tmpLibDir = jargs[t].tmp_lib_dir
              /\ c.hookLibDir = jargs[t].hook_lib_dir
              /\ c.customDriverDir = jargs[t].custom_driver_dir
              /\ c.customDriverName = jargs[t].driver_name

\* C7 witness: the bait file is missing, the one call returned a null handle
\* and the invocation returned without a second call.
C7_Witness ==
    \E t \in Threads :
        /\ Returned(t) /\ BaitOnDisk(t) # "file"
        /\ Outcome(t) = "null_err"
        /\ Cardinality(OpIdx(t, "open")) = 1

----------------------------------------------------------------------------
\* The text of the invocation's "Real dlerror" line.
ReportedText(t) == {Ev(t, i).args[1] : i \in DlerrorLines(t)}

\* What the invocation's own call of the primitive left for it to report.
OwnErrorText(t) ==
    IF Outcome(t) = "null_err" THEN LinkerError(t) ELSE NoDlerrorText

\* C8: when the caller serialises the invocations with a mutex, every
\* invocation that fails reports exactly what its own call of the primitive
\* left: the error that call wrote, or the fallback when it wrote none.  (The
\* function takes no lock itself: C8_Witness is the race without the mutex.)
C8_SerializedReportsOwnError ==
    callerLock =>
        \A t \in Threads :
            (Reported(t) /\ Outcome(t) # "handle") =>
                ReportedText(t) = {OwnErrorText(t)}

\* C8 witness: without the caller's mutex and with one slot for the process,
\* two invocations interleaved so that one reported the error the other's
\* call produced, and the other reported the fallback although its call had
\* produced an error.
C8_Witness ==
    /\ ~callerLock
    /\ \E t, u \in Threads :
          /\ t # u /\ Returned(t) /\ Returned(u)
          /\ Outcome(t) = "null_noerr" /\ ReportedText(t) = {LinkerError(u)}
          /\ Outcome(u) = "null_err" /\ ReportedText(u) = {NoDlerrorText}

----------------------------------------------------------------------------
\* C9: the step that checks the bait changes neither the linker's error
\* slot, nor the linker namespace, nor the filesystem; all it does is one
\* access(F_OK) on hook_lib_dir/libvulkan_freedreno.so and one log line, and
\* that line says "found" only when the file is there and "MISSING" whenever
\* it is not, be it for a missing file, a missing directory or a directory
\* the process may not search.
C9_PreflightReadOnly ==
    [][\A t \in Threads :
          (pc[t] = "L27" /\ pc'[t] # "L27") =>
              LET n == Len(events[t])
                  path == ExpectedBaitPath(t)
              IN /\ dlerrorSlot' = dlerrorSlot
                 /\ nsHooked' = nsHooked
                 /\ fs' = fs
                 /\ Len(events'[t]) = n + 2
                 /\ SubSeq(events'[t], 1, n) = events[t]
                 /\ events'[t][n + 1].op = "access"
                 /\ events'[t][n + 1].mode = "F_OK"
                 /\ events'[t][n + 1].path = path
                 /\ events'[t][n + 2].op = "log"
                 /\ events'[t][n + 2].args = <<path>>
                 /\ events'[t][n + 2].fmt =
                        IF fs[path] = "file" THEN FoundFmt ELSE MissingFmt
                 /\ events'[t][n + 2].level =
                        IF fs[path] = "file" THEN "I" ELSE "E"]_vars

\* C9 witness: two bait checks are done, one against a directory the process
\* may not search and one against a directory that is not there, and both
\* were logged as MISSING.
C9_Witness ==
    \E t, u \in Threads :
        /\ PastBaitCheck(t) /\ BaitOnDisk(t) = "no_permission"
        /\ \E i \in LogIdx(t) : Ev(t, i).fmt = MissingFmt
        /\ PastBaitCheck(u) /\ BaitOnDisk(u) = "no_dir"
        /\ \E i \in LogIdx(u) : Ev(u, i).fmt = MissingFmt

----------------------------------------------------------------------------
ReleasesOf(t, k) == {i \in OpIdx(t, "release") : Ev(t, i).local = k}

====
